---- MODULE Spec2Model ----
(***************************************************************************)
(* A model of glam's f32 Mat2 (src/src/f32/mat2.rs): a 2x2 column-major    *)
(* matrix stored in one Vec4, its constructors, setters, accessors and     *)
(* algebraic operations.                                                   *)
(*                                                                         *)
(* Numbers.  An f32 is modelled as a pair <<n, d>> of integers:            *)
(*   d > 0, gcd(|n|, d) = 1   the finite value n/d, computed exactly;      *)
(*   <<1, 0>>, <<-1, 0>>      +Infinity and -Infinity;                     *)
(*   <<0, 0>>                 NaN.                                         *)
(* The IEEE-754 rules for the special values are kept (x/0, 0*Inf,         *)
(* Inf-Inf, NaN propagation).  Rounding is not modelled: finite results    *)
(* are exact, which is the "exact arithmetic" of the algebraic laws.  The  *)
(* two zeros, which compare equal in Rust, are one value.  Equality of     *)
(* model values is identity of values (NaN is the same value as NaN).      *)
(***************************************************************************)
EXTENDS Integers, Sequences, FiniteSets, TLC

VARIABLES m, rhs, checked, wr, op, res, panicked

vars == <<m, rhs, checked, wr, op, res, panicked>>

\* The lanes a matrix is constructed from are the first NumLanes entries of
\* LaneSeq; in the specification of the binary operations the lanes of the
\* second operand are its first NumRhsLanes entries.
NumLanes == 4
NumRhsLanes == 3

----------------------------------------------------------------------------
(* f32 arithmetic *)

Abs(i) == IF i < 0 THEN -i ELSE i

Sign(i) == IF i < 0 THEN -1 ELSE IF i > 0 THEN 1 ELSE 0

RECURSIVE Gcd(_, _)
Gcd(a, b) == IF b = 0 THEN a ELSE Gcd(b, a % b)

\* The value n/d in lowest terms with a positive denominator; n/0 is an
\* infinity of the sign of n, and 0/0 is NaN.
Norm(n, d) ==
    IF d = 0 THEN <<Sign(n), 0>>
    ELSE LET s == IF d < 0 THEN -1 ELSE 1
             g == Gcd(Abs(n), Abs(d))
         IN  <<(s * n) \div g, (s * d) \div g>>

F(i) == <<i, 1>>
Zero == F(0)
One == F(1)
Inf == <<1, 0>>
NegInf == <<-1, 0>>
NaN == <<0, 0>>

IsNaN(a) == a = NaN
IsFinite(a) == a[2] # 0

\* f32 `-a`
FNeg(a) == <<-a[1], a[2]>>

\* f32 `a * b`: 0 * Inf and anything * NaN are NaN.
FMul(a, b) == Norm(a[1] * b[1], a[2] * b[2])

\* f32 `a + b`: Inf + (-Inf) and anything + NaN are NaN.
FAdd(a, b) ==
    IF a[2] = 0 /\ b[2] = 0
    THEN (IF a = b THEN a ELSE NaN)
    ELSE Norm(a[1] * b[2] + b[1] * a[2], a[2] * b[2])

\* f32 `a - b`
FSub(a, b) == FAdd(a, FNeg(b))

\* f32 `a / b`: x/0 is an infinity of the sign of x, 0/0 and Inf/Inf are NaN.
FDiv(a, b) ==
    IF b[1] < 0 THEN Norm(-(a[1] * b[2]), -(a[2] * b[1]))
    ELSE Norm(a[1] * b[2], a[2] * b[1])

\* f32 `a <= b` (false when either is NaN)
FLe(a, b) ==
    /\ ~IsNaN(a)
    /\ ~IsNaN(b)
    /\ \/ a = b
       \/ a = NegInf
       \/ b = Inf
       \/ /\ IsFinite(a)
          /\ IsFinite(b)
          /\ a[1] * b[2] <= b[1] * a[2]

\* f32::abs
FAbs(a) == <<Abs(a[1]), a[2]>>

----------------------------------------------------------------------------
(* Vec2 and Vec4, the leaf types Mat2 is built on *)

Vec2New(x, y) == [x |-> x, y |-> y]

\* Vec2 -> (f32, f32)
Vec2Into(v) == <<v.x, v.y>>

Vec2Zero == Vec2New(Zero, Zero)

\* Vec2 + Vec2
Vec2Add(a, b) == Vec2New(FAdd(a.x, b.x), FAdd(a.y, b.y))

Vec4New(x, y, z, w) == [x |-> x, y |-> y, z |-> z, w |-> w]

Vec4Zero == Vec4New(Zero, Zero, Zero, Zero)

Vec4Splat(s) == Vec4New(s, s, s, s)

\* Vec4 -> (f32, f32, f32, f32) and Vec4 -> [f32; 4]
Vec4Into(v) == <<v.x, v.y, v.z, v.w>>

\* v.as_mut()[i] = val, for the array index i in 0..3
Vec4SetLane(v, i, val) ==
    CASE i = 0 -> [v EXCEPT !.x = val]
      [] i = 1 -> [v EXCEPT !.y = val]
      [] i = 2 -> [v EXCEPT !.z = val]
      [] i = 3 -> [v EXCEPT !.w = val]

\* Vec4 * Vec4, Vec4 + Vec4, Vec4 - Vec4: lane by lane
Vec4Mul(a, b) ==
    Vec4New(FMul(a.x, b.x), FMul(a.y, b.y), FMul(a.z, b.z), FMul(a.w, b.w))

Vec4Add(a, b) ==
    Vec4New(FAdd(a.x, b.x), FAdd(a.y, b.y), FAdd(a.z, b.z), FAdd(a.w, b.w))

Vec4Sub(a, b) ==
    Vec4New(FSub(a.x, b.x), FSub(a.y, b.y), FSub(a.z, b.z), FSub(a.w, b.w))

\* Vec4 / f32: every lane divided by s
Vec4DivScalar(a, s) ==
    Vec4New(FDiv(a.x, s), FDiv(a.y, s), FDiv(a.z, s), FDiv(a.w, s))

\* Vec4::abs_diff_eq: every lane pair differs by at most max_abs_diff
Vec4AbsDiffEq(a, b, max_abs_diff) ==
    \A l \in 1..4 :
        FLe(FAbs(FSub(Vec4Into(a)[l], Vec4Into(b)[l])), max_abs_diff)

\* The angles of the model and the (sin, cos) pair scalar_sin_cos returns for
\* each: the four quarter turns, the angle of the 3-4-5 triangle, and a
\* non-finite angle, whose sine and cosine are NaN.
SinCosTable ==
    <<  <<Zero, One>>, <<One, Zero>>, <<Zero, F(-1)>>, <<F(-1), Zero>>,
        <<Norm(3, 5), Norm(4, 5)>>, <<NaN, NaN>>  >>

Angles == DOMAIN SinCosTable

scalar_sin_cos(angle) == SinCosTable[angle]

\* glam_assert!(cond): an assertion in the checked configuration, nothing in
\* the unchecked one.  TRUE when execution continues past it.
glam_assert(chk, cond) == chk => cond

----------------------------------------------------------------------------
(* Mat2: the value is its Vec4, lanes (x, y, z, w) = (m00, m10, m01, m11) *)

zero == Vec4Zero

\* identity() with the second column a copy of the first
identity_repeated_column == Vec4New(One, Zero, One, Zero)

identity == Vec4New(One, Zero, Zero, One)

from_cols(x_axis, y_axis) == Vec4New(x_axis.x, x_axis.y, y_axis.x, y_axis.y)

\* array index i of the source is sequence index i + 1
from_cols_array(a) == Vec4New(a[1], a[2], a[3], a[4])

to_cols_array(self) == Vec4Into(self)

from_cols_array_2d(a) == Vec4New(a[1][1], a[1][2], a[2][1], a[2][2])

\* to_cols_array_2d() exporting rows instead of columns
to_cols_array_2d_row_major(self) ==
    LET t == Vec4Into(self)
    IN  << <<t[1], t[3]>>, <<t[2], t[4]>> >>

to_cols_array_2d(self) ==
    LET t == Vec4Into(self)
        x0 == t[1]
        y0 == t[2]
        x1 == t[3]
        y1 == t[4]
    IN  << <<x0, y0>>, <<x1, y1>> >>

\* from_scale_angle() with the rotation applied before the scale
from_scale_angle_rotate_first(scale, angle) ==
    LET sc == scalar_sin_cos(angle)
        sin == sc[1]
        cos == sc[2]
    IN  Vec4New(FMul(cos, scale.x), FMul(sin, scale.y),
                FMul(FNeg(sin), scale.x), FMul(cos, scale.y))

from_scale_angle(scale, angle) ==
    LET sc == scalar_sin_cos(angle)
        sin == sc[1]
        cos == sc[2]
        scale_x == Vec2Into(scale)[1]
        scale_y == Vec2Into(scale)[2]
    IN  Vec4New(FMul(cos, scale_x), FMul(sin, scale_x),
                FMul(FNeg(sin), scale_y), FMul(cos, scale_y))

from_angle(angle) ==
    LET sc == scalar_sin_cos(angle)
        sin == sc[1]
        cos == sc[2]
    IN  Vec4New(cos, sin, FNeg(sin), cos)

from_scale(scale) ==
    LET x == Vec2Into(scale)[1]
        y == Vec2Into(scale)[2]
    IN  Vec4New(x, Zero, Zero, y)

\* set_x_axis() writing the first row (lanes 0 and 2)
set_x_axis_row(self, x) == Vec4SetLane(Vec4SetLane(self, 0, x.x), 2, x.y)

set_x_axis(self, x) == Vec4SetLane(Vec4SetLane(self, 0, x.x), 1, x.y)

set_y_axis(self, y) == Vec4SetLane(Vec4SetLane(self, 2, y.x), 3, y.y)

x_axis(self) ==
    LET t == Vec4Into(self)
    IN  Vec2New(t[1], t[2])

y_axis(self) ==
    LET t == Vec4Into(self)
    IN  Vec2New(t[3], t[4])

\* transpose() swapping the diagonal lanes 0 and 3
transpose_diagonal(self) ==
    LET t == Vec4Into(self)
    IN  Vec4New(t[4], t[2], t[3], t[1])

transpose(self) ==
    LET t == Vec4Into(self)
        m00 == t[1]
        m01 == t[2]
        m10 == t[3]
        m11 == t[4]
    IN  Vec4New(m00, m10, m01, m11)

\* determinant() adding the off-diagonal product
determinant_plus(self) ==
    LET t == Vec4Into(self)
    IN  FAdd(FMul(t[1], t[4]), FMul(t[2], t[3]))

determinant(self) ==
    LET t == Vec4Into(self)
        a == t[1]
        b == t[2]
        c == t[3]
        d == t[4]
    IN  FSub(FMul(a, d), FMul(b, c))

\* The assertion of inverse() testing the diagonal product only
inverse_precondition_diagonal(self) ==
    LET t == Vec4Into(self)
    IN  FMul(t[1], t[4]) # Zero

\* The condition inverse() hands to glam_assert!: det != 0.0.
inverse_precondition(self) ==
    LET t == Vec4Into(self)
        det == FSub(FMul(t[1], t[4]), FMul(t[2], t[3]))
    IN  det # Zero

\* TRUE when inverse() returns a value, FALSE when its assertion fails.
inverse_returns(self, chk) == glam_assert(chk, inverse_precondition(self))

\* inverse() without the sign flips of the off-diagonal lanes
inverse_unsigned(self) ==
    LET t == Vec4Into(self)
        det == FSub(FMul(t[1], t[4]), FMul(t[2], t[3]))
        tmp == Vec4DivScalar(Vec4Splat(One), det)
    IN  Vec4Mul(Vec4New(t[4], t[2], t[3], t[1]), tmp)

\* The value inverse() computes once past the assertion.
inverse(self) ==
    LET t == Vec4Into(self)
        a == t[1]
        b == t[2]
        c == t[3]
        d == t[4]
        det == FSub(FMul(a, d), FMul(b, c))
        tmp == Vec4DivScalar(Vec4New(One, FNeg(One), FNeg(One), One), det)
    IN  Vec4Mul(Vec4New(d, b, c, a), tmp)

\* mul_vec2() multiplying, not adding, the two products of the second row
mul_vec2_product(self, v) ==
    LET r == Vec4New(v.x, v.x, v.y, v.y)
        tmp == Vec4Into(Vec4Mul(self, r))
    IN  Vec2New(FAdd(tmp[1], tmp[3]), FMul(tmp[2], tmp[4]))

mul_vec2(self, v) ==
    LET r == Vec4New(v.x, v.x, v.y, v.y)
        tmp == Vec4Into(Vec4Mul(self, r))
        x0 == tmp[1]
        y0 == tmp[2]
        x1 == tmp[3]
        y1 == tmp[4]
    IN  Vec2New(FAdd(x0, x1), FAdd(y0, y1))

\* mul_mat2() with the operands exchanged
mul_mat2_swapped(self, other) ==
    LET t == Vec4Into(self)
    IN  from_cols(mul_vec2(other, Vec2New(t[1], t[2])),
                  mul_vec2(other, Vec2New(t[3], t[4])))

mul_mat2(self, other) ==
    LET t == Vec4Into(other)
        x0 == t[1]
        y0 == t[2]
        x1 == t[3]
        y1 == t[4]
    IN  from_cols(mul_vec2(self, Vec2New(x0, y0)),
                  mul_vec2(self, Vec2New(x1, y1)))

add_mat2(self, other) == Vec4Add(self, other)

sub_mat2(self, other) == Vec4Sub(self, other)

mul_scalar(self, s) == Vec4Mul(self, Vec4Splat(s))

abs_diff_eq(self, other, max_abs_diff) ==
    Vec4AbsDiffEq(self, other, max_abs_diff)

----------------------------------------------------------------------------
(* The state: one Mat2 binding m, written by its constructor and by the two *)
(* setters; a second matrix rhs, the operand of the binary operations;      *)
(* the build configuration; and the last call made on m with its result.    *)
(*   wr        the last write to m: <<constructor or setter, its inputs>>   *)
(*   op        the last non-mutating call: <<method, its arguments>>        *)
(*   res       what that call returned                                      *)
(*   panicked  TRUE when that call ended in an assertion failure            *)
(*   checked   TRUE when the glam-assert configuration is enabled           *)

LaneSeq == <<Zero, One, F(-1), Inf, F(2), NaN, F(-2)>>

Lanes(n) == {LaneSeq[i] : i \in 1..n}

Arrays(n) == {<<a, b, c, d>> : a \in Lanes(n), b \in Lanes(n),
                               c \in Lanes(n), d \in Lanes(n)}

Arrays2d(n) == {<< <<a[1], a[2]>>, <<a[3], a[4]>> >> : a \in Arrays(n)}

Vec2Inputs(n) == {Vec2New(x, y) : x \in Lanes(n), y \in Lanes(n)}

NoCall == <<"none">>
NoValue == <<>>

\* let mut m = Mat2::<constructor>(..); the other operand is Mat2::default().
Init ==
    /\ checked \in BOOLEAN
    /\ rhs = identity
    /\ op = NoCall
    /\ res = NoValue
    /\ panicked = FALSE
    /\ \/ \E a \in Arrays(NumLanes) :
            /\ m = from_cols_array(a)
            /\ wr = <<"from_cols_array", a>>
       \/ \E a \in Arrays2d(NumLanes) :
            /\ m = from_cols_array_2d(a)
            /\ wr = <<"from_cols_array_2d", a>>
       \/ \E scale \in Vec2Inputs(NumLanes), angle \in Angles :
            /\ m = from_scale_angle(scale, angle)
            /\ wr = <<"from_scale_angle", scale, angle>>
       \/ \E angle \in Angles :
            /\ m = from_angle(angle)
            /\ wr = <<"from_angle", angle>>
       \/ \E scale \in Vec2Inputs(NumLanes) :
            /\ m = from_scale(scale)
            /\ wr = <<"from_scale", scale>>
       \/ /\ m = identity
          /\ wr = <<"identity">>
       \/ /\ m = zero
          /\ wr = <<"zero">>

\* Two matrices built by from_cols_array, for the binary operations, in the
\* unchecked (default) configuration.
InitMul ==
    /\ checked = FALSE
    /\ op = NoCall
    /\ res = NoValue
    /\ panicked = FALSE
    /\ \E a \in Arrays(NumLanes), b \in Arrays(NumRhsLanes) :
            /\ m = from_cols_array(a)
            /\ wr = <<"from_cols_array", a>>
            /\ rhs = from_cols_array(b)

\* A non-mutating call that returns val.
Returns(call, val) ==
    /\ op' = call
    /\ res' = val
    /\ panicked' = FALSE
    /\ UNCHANGED <<m, rhs, checked, wr>>

\* m.set_x_axis(x)
SetXAxis ==
    \E x \in Vec2Inputs(NumLanes) :
        /\ m' = set_x_axis(m, x)
        /\ wr' = <<"set_x_axis", x>>
        /\ op' = NoCall
        /\ res' = NoValue
        /\ panicked' = FALSE
        /\ UNCHANGED <<rhs, checked>>

\* m.set_y_axis(y)
SetYAxis ==
    \E y \in Vec2Inputs(NumLanes) :
        /\ m' = set_y_axis(m, y)
        /\ wr' = <<"set_y_axis", y>>
        /\ op' = NoCall
        /\ res' = NoValue
        /\ panicked' = FALSE
        /\ UNCHANGED <<rhs, checked>>

XAxis == Returns(<<"x_axis">>, x_axis(m))

YAxis == Returns(<<"y_axis">>, y_axis(m))

ToColsArray == Returns(<<"to_cols_array">>, to_cols_array(m))

ToColsArray2d == Returns(<<"to_cols_array_2d">>, to_cols_array_2d(m))

Transpose == Returns(<<"transpose">>, transpose(m))

Determinant == Returns(<<"determinant">>, determinant(m))

\* m.inverse(): the assertion fails and nothing is returned, or the value is.
Inverse ==
    IF inverse_returns(m, checked)
    THEN Returns(<<"inverse">>, inverse(m))
    ELSE /\ op' = <<"inverse">>
         /\ res' = NoValue
         /\ panicked' = TRUE
         /\ UNCHANGED <<m, rhs, checked, wr>>

\* m.mul_vec2(a), m.mul_vec2(b) and m.mul_vec2(a + b), for the two columns
\* a and b of rhs.
MulVec2 ==
    LET a == x_axis(rhs)
        b == y_axis(rhs)
    IN  Returns(<<"mul_vec2", a, b>>,
                <<mul_vec2(m, a), mul_vec2(m, b), mul_vec2(m, Vec2Add(a, b))>>)

\* m.mul_mat2(&rhs)
MulMat2 == Returns(<<"mul_mat2">>, mul_mat2(m, rhs))

\* rhs.mul_mat2(&m)
MulMat2Rev == Returns(<<"mul_mat2_rev">>, mul_mat2(rhs, m))

AddMat2 == Returns(<<"add_mat2">>, add_mat2(m, rhs))

SubMat2 == Returns(<<"sub_mat2">>, sub_mat2(m, rhs))

\* m.mul_scalar(s), for a lane s of rhs
MulScalar ==
    \E i \in 1..4 :
        LET s == to_cols_array(rhs)[i]
        IN  Returns(<<"mul_scalar", s>>, mul_scalar(m, s))

\* m.abs_diff_eq(rhs, max_abs_diff), for a lane max_abs_diff of rhs
AbsDiffEq ==
    \E i \in 1..4 :
        LET tol == to_cols_array(rhs)[i]
        IN  Returns(<<"abs_diff_eq", tol>>, abs_diff_eq(m, rhs, tol))

Next ==
    \/ SetXAxis
    \/ SetYAxis
    \/ XAxis
    \/ YAxis
    \/ ToColsArray
    \/ ToColsArray2d
    \/ Transpose
    \/ Determinant
    \/ Inverse
    \/ MulVec2
    \/ MulMat2
    \/ MulMat2Rev
    \/ AddMat2
    \/ SubMat2
    \/ MulScalar
    \/ AbsDiffEq

Spec == Init /\ [][Next]_vars

NextMul ==
    \/ MulMat2
    \/ MulVec2

SpecMul == InitMul /\ [][NextMul]_vars

----------------------------------------------------------------------------
(* Claims *)

FiniteVec2(v) == IsFinite(v.x) /\ IsFinite(v.y)

FiniteVec4(v) == IsFinite(v.x) /\ IsFinite(v.y) /\ IsFinite(v.z) /\ IsFinite(v.w)

\* (d, -b, -c, a), each lane divided by det = a*d - b*c
AdjugateOverDet(a, b, c, d) ==
    LET det == FSub(FMul(a, d), FMul(b, c))
    IN  Vec4New(FDiv(d, det), FDiv(FNeg(b), det), FDiv(FNeg(c), det),
                FDiv(a, det))

\* C1 as stated: whenever inverse() returns for a matrix whose determinant()
\* is not zero, m.mul_mat2(&m.inverse()) is identity() and the inverse is
\* (d, -b, -c, a) / det.
C1_InverseOfAnyMatrix ==
    (op[1] = "inverse" /\ determinant(m) # Zero) =>
        /\ ~panicked
        /\ mul_mat2(m, res) = identity
        /\ res = AdjugateOverDet(m.x, m.y, m.z, m.w)

\* C1 amended: for a matrix of finite lanes whose determinant() is not zero,
\* inverse() returns (d, -b, -c, a) / det and m.mul_mat2(&m.inverse()) is
\* identity(), exactly in exact arithmetic.
C1_InverseOfFiniteMatrix ==
    (op[1] = "inverse" /\ FiniteVec4(m) /\ determinant(m) # Zero) =>
        /\ ~panicked
        /\ mul_mat2(m, res) = identity
        /\ res = AdjugateOverDet(m.x, m.y, m.z, m.w)

C1_Witness ==
    /\ op[1] = "inverse"
    /\ FiniteVec4(m)
    /\ determinant(m) = F(2)
    /\ m.y # Zero
    /\ ~panicked
    /\ res.x = Norm(1, 2)

\* C2 as stated: identity().mul_mat2(&m) and m.mul_mat2(&identity()) are m,
\* for every m.
C2_IdentityUnitOfAnyMatrix ==
    /\ (op[1] = "mul_mat2" /\ rhs = identity) => res = m
    /\ (op[1] = "mul_mat2_rev" /\ rhs = identity) => res = m

\* C2 amended: identity().mul_mat2(&m) and m.mul_mat2(&identity()) are m,
\* for every m of finite lanes.
C2_IdentityUnitOfFiniteMatrix ==
    /\ (op[1] = "mul_mat2" /\ rhs = identity /\ FiniteVec4(m)) => res = m
    /\ (op[1] = "mul_mat2_rev" /\ rhs = identity /\ FiniteVec4(m)) => res = m

C2_Witness ==
    /\ op[1] = "mul_mat2_rev"
    /\ rhs = identity
    /\ FiniteVec4(m)
    /\ m.x # Zero /\ m.y # Zero /\ m.z # Zero /\ m.w # Zero
    /\ m.x # m.y
    /\ res = m

\* C3: a call fails exactly when it is inverse(), the checked configuration
\* is enabled and the determinant a*d - b*c of the receiver is zero; every
\* other call, and every call in the unchecked configuration, returns.
C3_OnlyCheckedInverseFails ==
    panicked <=>
        /\ op[1] = "inverse"
        /\ checked
        /\ FSub(FMul(m.x, m.w), FMul(m.y, m.z)) = Zero

C3_Witness ==
    /\ op[1] = "inverse"
    /\ panicked
    /\ m # zero

\* C4: set_x_axis(v) changes lanes 0-1 only, to v; set_y_axis(v) changes
\* lanes 2-3 only, to v; x_axis() and y_axis() read lanes 0-1 and 2-3, so
\* they return the column last set, or the constructed one if none was set.
C4_SettersWriteOneColumn ==
  /\ [] /\ (wr[1] = "set_x_axis" /\ op[1] = "x_axis") => res = wr[2]
        /\ (wr[1] = "set_y_axis" /\ op[1] = "y_axis") => res = wr[2]
        /\ (wr[1] = "from_cols_array" /\ op[1] = "x_axis") =>
                res = Vec2New(wr[2][1], wr[2][2])
        /\ (wr[1] = "from_cols_array" /\ op[1] = "y_axis") =>
                res = Vec2New(wr[2][3], wr[2][4])
  /\
    [][ /\ (op' = NoCall /\ wr'[1] = "set_x_axis") =>
              /\ x_axis(m') = wr'[2]
              /\ y_axis(m') = y_axis(m)
              /\ to_cols_array(m')[3] = to_cols_array(m)[3]
              /\ to_cols_array(m')[4] = to_cols_array(m)[4]
        /\ (op' = NoCall /\ wr'[1] = "set_y_axis") =>
              /\ y_axis(m') = wr'[2]
              /\ x_axis(m') = x_axis(m)
              /\ to_cols_array(m')[1] = to_cols_array(m)[1]
              /\ to_cols_array(m')[2] = to_cols_array(m)[2]
        /\ op'[1] = "x_axis" =>
              res' = Vec2New(to_cols_array(m)[1], to_cols_array(m)[2])
        /\ op'[1] = "y_axis" =>
              res' = Vec2New(to_cols_array(m)[3], to_cols_array(m)[4])
      ]_vars

C4_Witness ==
    /\ wr[1] = "set_x_axis"
    /\ op[1] = "y_axis"
    /\ x_axis(m) = wr[2]
    /\ res # wr[2]
    /\ wr[2].x # wr[2].y

\* C5: from_cols_array(&a).to_cols_array() is a, from_cols_array_2d(&n)
\* .to_cols_array_2d() is n, and from_cols_array_2d(&[[p,q],[r,s]]) is
\* from_cols_array(&[p,q,r,s]).
C5_ArrayRoundTrip ==
    /\ (wr[1] = "from_cols_array" /\ op[1] = "to_cols_array") => res = wr[2]
    /\ (wr[1] = "from_cols_array_2d" /\ op[1] = "to_cols_array_2d") =>
            res = wr[2]
    /\ wr[1] = "from_cols_array_2d" =>
            m = from_cols_array(<<wr[2][1][1], wr[2][1][2],
                                  wr[2][2][1], wr[2][2][2]>>)

C5_Witness ==
    /\ wr[1] = "from_cols_array_2d"
    /\ op[1] = "to_cols_array_2d"
    /\ Cardinality({wr[2][1][1], wr[2][1][2], wr[2][2][1], wr[2][2][2]}) = 4
    /\ res = wr[2]

\* C6: transpose() swaps lanes 1 and 2, keeps lanes 0 and 3, and transposing
\* twice gives the matrix back.
C6_TransposeInvolution ==
    op[1] = "transpose" =>
        /\ to_cols_array(res) = <<to_cols_array(m)[1], to_cols_array(m)[3],
                                  to_cols_array(m)[2], to_cols_array(m)[4]>>
        /\ transpose(res) = m

C6_Witness ==
    /\ op[1] = "transpose"
    /\ m.y # m.z
    /\ m.x # m.w
    /\ res # m

\* C7 as stated: for all matrices, the determinant of m.mul_mat2(&rhs) is
\* m.determinant() * rhs.determinant(), the determinant being a*d - b*c.
C7_DeterminantOfAnyProduct ==
    op[1] = "mul_mat2" =>
        /\ determinant(m) = FSub(FMul(m.x, m.w), FMul(m.y, m.z))
        /\ determinant(res) = FMul(determinant(m), determinant(rhs))

\* C7 amended: for matrices of finite lanes, the determinant of
\* m.mul_mat2(&rhs) is m.determinant() * rhs.determinant(), exactly in exact
\* arithmetic, the determinant being a*d - b*c.
C7_DeterminantOfFiniteProduct ==
    (op[1] = "mul_mat2" /\ FiniteVec4(m) /\ FiniteVec4(rhs)) =>
        /\ determinant(m) = FSub(FMul(m.x, m.w), FMul(m.y, m.z))
        /\ determinant(res) = FMul(determinant(m), determinant(rhs))

C7_Witness ==
    /\ op[1] = "mul_mat2"
    /\ FiniteVec4(m)
    /\ FiniteVec4(rhs)
    /\ determinant(m) = F(2)
    /\ determinant(rhs) = F(-2)
    /\ determinant(res) = F(-4)

\* l.x * v.x + l.z * v.y, l.y * v.x + l.w * v.y
MatVecProduct(l, v) ==
    Vec2New(FAdd(FMul(l.x, v.x), FMul(l.z, v.y)),
            FAdd(FMul(l.y, v.x), FMul(l.w, v.y)))

\* C8: the columns of m.mul_mat2(&rhs) are m.mul_vec2 of the columns of rhs,
\* and m.mul_vec2(v) is (l0*v.x + l2*v.y, l1*v.x + l3*v.y).
C8_ColumnMajorProduct ==
    /\ op[1] = "mul_mat2" =>
          /\ x_axis(res) = mul_vec2(m, x_axis(rhs))
          /\ y_axis(res) = mul_vec2(m, y_axis(rhs))
          /\ x_axis(res) = MatVecProduct(m, x_axis(rhs))
          /\ y_axis(res) = MatVecProduct(m, y_axis(rhs))
    /\ op[1] = "mul_vec2" =>
          /\ res[1] = MatVecProduct(m, op[2])
          /\ res[2] = MatVecProduct(m, op[3])

C8_Witness ==
    /\ op[1] = "mul_mat2"
    /\ FiniteVec4(m)
    /\ res # mul_mat2(rhs, m)
    /\ res.x # Zero /\ res.y # Zero /\ res.z # Zero /\ res.w # Zero

\* C9: from_scale_angle(scale, angle) is from_angle(angle).mul_mat2(
\* &from_scale(scale)): its columns are (cos*scale.x, sin*scale.x) and
\* (-sin*scale.y, cos*scale.y).
C9_ScaleBeforeRotation ==
    wr[1] = "from_scale_angle" =>
        LET scale == wr[2]
            angle == wr[3]
            sin == scalar_sin_cos(angle)[1]
            cos == scalar_sin_cos(angle)[2]
        IN  /\ m = mul_mat2(from_angle(angle), from_scale(scale))
            /\ x_axis(m) = Vec2New(FMul(cos, scale.x), FMul(sin, scale.x))
            /\ y_axis(m) = Vec2New(FMul(FNeg(sin), scale.y),
                                   FMul(cos, scale.y))

C9_Witness ==
    /\ wr[1] = "from_scale_angle"
    /\ FiniteVec2(wr[2])
    /\ wr[2].x # wr[2].y
    /\ wr[2].x # Zero
    /\ wr[2].y # Zero
    /\ scalar_sin_cos(wr[3]) = <<Norm(3, 5), Norm(4, 5)>>
    /\ m.y = Norm(3, 5)
    /\ m.z = Norm(3, 5)

\* C10 as stated: for every m, m.mul_vec2(Vec2(0,0)) is Vec2(0,0) and
\* m.mul_vec2(a) + m.mul_vec2(b) is m.mul_vec2(a + b).
C10_LinearOnAnyMatrix ==
    op[1] = "mul_vec2" =>
        /\ op[2] = Vec2Zero => res[1] = Vec2Zero
        /\ Vec2Add(res[1], res[2]) = res[3]

\* C10 amended: for every m, a and b of finite lanes, m.mul_vec2(Vec2(0,0))
\* is Vec2(0,0) and m.mul_vec2(a) + m.mul_vec2(b) is m.mul_vec2(a + b),
\* exactly in exact arithmetic.
C10_LinearOnFiniteMatrix ==
    (op[1] = "mul_vec2" /\ FiniteVec4(m) /\ FiniteVec4(rhs)) =>
        /\ op[2] = Vec2Zero => res[1] = Vec2Zero
        /\ Vec2Add(res[1], res[2]) = res[3]

C10_Witness ==
    /\ op[1] = "mul_vec2"
    /\ FiniteVec4(m)
    /\ FiniteVec4(rhs)
    /\ res[1] # Vec2Zero
    /\ res[2] # Vec2Zero
    /\ res[1] # res[2]
    /\ res[3].x # Zero
    /\ res[3].y # Zero

====
